---- MODULE Spec2Model ----
(***************************************************************************)
(* Lab and ICCBased color space writing (devices/vector/gdevpdfk.c).       *)
(*                                                                         *)
(* The model follows one call of pdf_convert_cie_space or of               *)
(* pdf_iccbased_color_space from entry to return.  A step is the code up   *)
(* to and including one call of an external collaborator (cos_array_add,   *)
(* cos_stream_add_bytes, gx_cie_to_xyz_alloc, pdf_alloc_resource, ...),    *)
(* whose result (success or an error code) is chosen nondeterministically. *)
(* An argument of the call is drawn from its set by the step that first    *)
(* reads it; until then it holds its "unread" value.                       *)
(*                                                                         *)
(* Numbers: CompatibilityLevel is held in hundredths (1.3 is 130).         *)
(* A gs_vector3 of the caller is held in 64ths, the float constants of     *)
(* white_d50 in units of 2^-24 (the float's own resolution).               *)
(***************************************************************************)
EXTENDS Integers, Sequences, FiniteSets

VARIABLES
    pc,                 \* position in the running call
    CompatibilityLevel, \* pdev->CompatibilityLevel, 0 until read
    ncomps,             \* gs_color_space_num_components(pcs), 0 until read
    one_step,           \* argument one_step
    pmat,               \* argument pmat: "NULL" or the name of a matrix
    WhitePoint,         \* pciec->points.WhitePoint, in 64ths
    data_cs,            \* pcs->cmm_icc_profile_data->data_cs
    num_comps,          \* pcs->cmm_icc_profile_data->num_comps
    base_space,         \* pcs->base_space: "NULL", "Device" or "Other"
    major,              \* profile version, major byte
    minor,              \* profile version, minor (after minor >> 4)
    pgs,                \* argument pgs: "NULL" or "gstate"
    pca,                \* the color space array: the elements added
    strm,               \* the cos stream made by pdf_make_iccbased
    pcstrm,             \* the caller's pcstrm: "unset" or "set"
    tables,             \* profile_table_t tables[0 .. num_tables-1]
    bytes,              \* the tag directory written in front of the tags
    header,             \* the variable fields of the 128-byte header
    ti,                 \* index of the table being written (1-based)
    a2b0,               \* icc_a2b0_t a2b0: ncomps (header[8]), num_points, count
    ci,                 \* index i of the CLUT loop of write_a2b0
    code,               \* the value returned to the caller, once pc = "done"
    loc,                \* local code of write_a2b0 at its join point
    err,                \* first error an append or a tag writer returned
    err_len,            \* length of the stream when err was returned
    gs_allocs,          \* successful gx_cie_to_xyz_alloc calls
    gs_frees,           \* gx_cie_to_xyz_free calls
    pres,               \* pdf_alloc_resource: "none", "failed", "registered"
    downgrade_icc,      \* local downgrade_icc
    streamed,           \* buffers appended by pdf_iccbased_color_space
    ranges,             \* pnt->ranges of the A2B0 table, ranges of lab_range
    in,                 \* double in[]: the inputs of the last sample taken
    cs_index,           \* gs_color_space_get_index(pcs)
    pWhitePoint,        \* &pciec->points.WhitePoint as cie_to_xyz reads it
    xyz_float,          \* float xyz_float[3] after the concretization
    xyz,                \* double xyz[3], the out of cie_to_xyz
    lab,                \* double lab[3] of xyz_to_lab: <<lab[0], lab[1], lab[2]>>
    range_out,          \* gs_range range_out[3], of which [1] and [2] are used
    corner,             \* index i of the corner loop of lab_range
    pclt,               \* const gx_color_lookup_table *pclt
    pi,                 \* const fixed *pi: the n table indices of the query
    pv_nearest,         \* pv[0..m-1] of gx_color_interpolate_nearest
    pv_linear           \* pv[0..m-1] of gx_color_interpolate_linear

vars == <<pc, CompatibilityLevel, ncomps, one_step, pmat, WhitePoint, data_cs,
          num_comps, base_space, major, minor, pgs, pca, strm, pcstrm, tables,
          bytes, header, a2b0, ti, ci, code, loc, err, err_len, gs_allocs, gs_frees,
          pres, downgrade_icc, streamed, ranges, in, cs_index, pWhitePoint,
          xyz_float, xyz, lab, range_out, corner, pclt, pi, pv_nearest,
          pv_linear>>

(***************************************************************************)
(* Error codes (gserrors.h) used or passed through by this file.           *)
(***************************************************************************)
gs_error_ioerror == -12
gs_error_rangecheck == -15
gs_error_undefined == -21
gs_error_VMerror == -25

\* What a failing collaborator may return.
ErrCodes == {gs_error_ioerror, gs_error_VMerror}
\* The result of one collaborator call.
CallResults == {0} \cup ErrCodes

(***************************************************************************)
(* Sizes fixed by the source.                                              *)
(***************************************************************************)
HEADER_SIZE == 128
DESC_SIZE == 96
CPRT_SIZE == 13
XYZ_SIZE == 20
TRC_SIZE == 12
A2B0_HEADER_SIZE == 52
gx_cie_cache_size == 512
NUM_IN_ENTRIES == 2
NUM_OUT_ENTRIES == 2
MAX_CLUT_ENTRIES == 2500
MAX_NUM_TABLES == 9
CLUT_POINTS_MAX == 255

(***************************************************************************)
(* Input sets.                                                             *)
(***************************************************************************)
\* Compatibility levels a pdf_convert_cie_space call is made at.
CieLevels == {120, 130, 170}
\* Compatibility levels a pdf_iccbased_color_space call is made at.
IccLevels == {120, 130, 140, 150, 160, 170, 200}
\* Channel counts of CIEBasedA, CIEBasedABC/DEF and CIEBasedDEFG.
CieNcomps == {1, 3, 4}
OneSteps == {"ONE_STEP_NOT", "ONE_STEP_LMN", "ONE_STEP_ABC"}
Pmats == {"NULL", "M1", "M2"}
\* Source white points, in 64ths: near D65, near D50, and one with Y # 1.
WhitePoints == {<<61, 64, 70>>, <<62, 64, 53>>, <<48, 56, 40>>}
NoVector == <<0, 0, 0>>
\* The columns cu, cv, cw of the matrices pmat may point to, in 64ths.
Matrix(p) ==
    IF p = "M1"
    THEN [cu |-> <<64, 0, 0>>, cv |-> <<0, 64, 0>>, cw |-> <<0, 0, 64>>]
    ELSE [cu |-> <<28, 14, -1>>, cv |-> <<23, 46, 8>>, cw |-> <<12, 5, 61>>]

\* The case labels of the switch on data_cs.
AllowedDataCS == {"gsCIEXYZ", "gsCIELAB", "gsRGB", "gsGRAY", "gsCMYK"}
RejectedDataCS == {"gsUNDEFINED", "gsNCHANNEL", "gsNAMED"}
DataCS == AllowedDataCS \cup RejectedDataCS
IccNumComps == {1, 2, 3, 4}
BaseSpaces == {"NULL", "Device", "Other"}
\* Version bytes gsicc_getprofilevers may report: major, and the minor byte
\* whose high nibble is the minor version (0x20 is minor 2, 0x24 is 2.4).
Majors == {2, 4, 5}
MinorBytes == {0, 16, 32, 36, 48}
PgsValues == {"NULL", "gstate"}

(***************************************************************************)
(* Arithmetic helpers.                                                     *)
(***************************************************************************)
\* round_up(v, m) of gsmemory/std.h for a power of two m.
round_up(v, m) == ((v + m - 1) \div m) * m

\* -(int)(length) & 3: the number of pad bytes after a tag.
PadLength(length) == (4 - (length % 4)) % 4

\* set_uint32: the four big-endian bytes of a 32-bit value (two's complement).
set_uint32(value) ==
    << (value \div 16777216) % 256, (value \div 65536) % 256,
       (value \div 256) % 256, value % 256 >>

\* (int)x for a quotient n/d: C truncates toward zero.
TruncDiv(n, d) == IF n >= 0 THEN n \div d ELSE -((-n) \div d)

\* set_XYZ for a value held in units of 2^-24: (uint)(int)(value * 65536).
set_XYZ(v24) == set_uint32(TruncDiv(v24, 256))

\* White point must be D50: the floats 0.9642f, 1.0f, 0.8249f in units of 2^-24.
white_d50 == <<16176592, 16777216, 13839525>>

\* adjust_wp: color_in * wp_out / wp_in per component; color_in and wp_in in
\* 64ths, wp_out and the result in units of 2^-24.
adjust_wp(color_in, wp_in, wp_out) ==
    [k \in 1..3 |-> TruncDiv(color_in[k] * wp_out[k], wp_in[k])]

\* The 12 bytes a "XYZ " tag holds after its 8-byte signature.
xyz3_bytes(pv) == set_XYZ(pv[1]) \o set_XYZ(pv[2]) \o set_XYZ(pv[3])

\* pow(b, e) for the integer arguments used here.  The product stops growing
\* once it is above MAX_CLUT_ENTRIES, which keeps it within machine integers.
RECURSIVE pow_int(_, _)
pow_int(b, e) ==
    IF e = 0 THEN 1
    ELSE LET r == pow_int(b, e - 1)
         IN  IF r > MAX_CLUT_ENTRIES THEN r ELSE r * b

\* (int)floor(pow(MAX_CLUT_ENTRIES, 1.0 / n)): the largest s with s^n within
\* the budget.
root_floor(n) ==
    CHOOSE s \in 1..MAX_CLUT_ENTRIES :
        pow_int(s, n) <= MAX_CLUT_ENTRIES /\ pow_int(s + 1, n) > MAX_CLUT_ENTRIES

Min(a, b) == IF a < b THEN a ELSE b

(***************************************************************************)
(* double and float values (cie_to_xyz, xyz_to_lab, lab_range, cache_arg)  *)
(* are held as exact fractions <<n, d>> in lowest terms with d > 0.        *)
(***************************************************************************)
RECURSIVE GCD(_, _)
GCD(a, b) == IF b = 0 THEN a ELSE GCD(b, a % b)

Abs(a) == IF a < 0 THEN -a ELSE a

\* The fraction n/d, d # 0.
Frac(n, d) ==
    LET g == GCD(Abs(n), Abs(d))
    IN  IF d < 0 THEN << -(n \div g), (-d) \div g >> ELSE << n \div g, d \div g >>

\* The integer n as a double.
F(n) == << n, 1 >>

\* a * b and a / b, cancelling before the products are taken.
FMul(a, b) ==
    LET g1 == GCD(Abs(a[1]), b[2])
        g2 == GCD(Abs(b[1]), a[2])
    IN  Frac((a[1] \div g1) * (b[1] \div g2), (a[2] \div g2) * (b[2] \div g1))

FDiv(a, b) == FMul(a, Frac(b[2], b[1]))

\* a + b and a - b over the least common denominator.
FAdd(a, b) ==
    LET g == GCD(a[2], b[2])
    IN  Frac(a[1] * (b[2] \div g) + b[1] * (a[2] \div g), a[2] * (b[2] \div g))

FSub(a, b) == FAdd(a, << -b[1], b[2] >>)

\* a < b: the sign of a - b.
FLess(a, b) == FSub(a, b)[1] < 0

\* The macros min and max on doubles.
FMin(a, b) == IF FLess(a, b) THEN a ELSE b
FMax(a, b) == IF FLess(b, a) THEN a ELSE b

\* pow(v, 1.0 / 3) for v > 0.  The inputs of the model make every v it is
\* taken of the cube of a fraction, so that the root is exact.
pow_third(v) ==
    << CHOOSE r \in 0..v[1] : r * r * r = v[1],
       CHOOSE r \in 1..v[2] : r * r * r = v[2] >>

(***************************************************************************)
(* cie_to_xyz.                                                             *)
(***************************************************************************)
\* The case labels of the switch on cs_index.
CieIndexes ==
    {"gs_color_space_index_CIEA", "gs_color_space_index_CIEABC",
     "gs_color_space_index_CIEDEF", "gs_color_space_index_CIEDEFG"}
\* An index the switch has no case for.
OtherIndexes == {"gs_color_space_index_DeviceRGB"}

\* gs_color_space_num_components(pcs).
num_components(cs) ==
    IF cs = "gs_color_space_index_CIEA" THEN 1
    ELSE IF cs = "gs_color_space_index_CIEDEFG" THEN 4
    ELSE 3

\* The switch: xyz_float as gx_psconcretize_CIE* left it (conc), or zeroed by
\* the memset of the default case.
Concretize(cs, conc) == IF cs \in CieIndexes THEN conc ELSE << F(0), F(0), F(0) >>

\* Mutant of Achromatic: no space is forced to be achromatic.
Achromatic_mut(cs) == FALSE

\* if (cs_index == gs_color_space_index_CIEA): AR forces this case to always
\* be achromatic.
Achromatic(cs) == cs = "gs_color_space_index_CIEA"

\* The literals 0.9642 and 0.8249 of the wp mapping to D50.
D50_X == Frac(9642, 10000)
D50_Z == Frac(8249, 10000)

\* Do wp mapping to D50: v * d50 / w.  The fraction d50 / w is taken first:
\* the value is the same and its terms stay within machine integers.
wp_mapping(v, d50, w) == FMul(v, FDiv(d50, w))

\* cie_to_xyz(in, out, pcs, pgs, pciec), where gx_psconcretize_CIE* gives
\* conc for in and wp is pciec->points.WhitePoint.  The result: the return
\* value, xyz_float before the wp mapping, and out.
cie_to_xyz(cs, conc, wp) ==
    LET c == Concretize(cs, conc)
        f == IF Achromatic(cs)
             THEN << FMul(wp[1], c[2]), c[2], FMul(wp[3], c[2]) >>
             ELSE c
    IN  [code |-> 0,
         xyz_float |-> f,
         out |-> << wp_mapping(f[1], D50_X, wp[1]),
                    f[2],
                    wp_mapping(f[3], D50_Z, wp[3]) >>]

(***************************************************************************)
(* xyz_to_lab.  lab and range_out are indexed as in C: lab[0], lab[1],     *)
(* lab[2] and range_out[1], range_out[2].                                  *)
(***************************************************************************)
\* lab_g_inverse(v).
lab_g_inverse(v) ==
    IF ~FLess(v, Frac(6 * 6 * 6, 29 * 29 * 29))
    THEN pow_third(v)
    ELSE FAdd(FMul(v, Frac(841, 108)), Frac(4, 29))

\* Mutant of ClampL: the upper limit is not applied.
ClampL_mut(L) == IF FLess(L, F(0)) THEN F(0) ELSE L

\* Clamp L* to the PDF range [0..100].
ClampL(L) ==
    IF FLess(L, F(0)) THEN F(0)
    ELSE IF FLess(F(100), L) THEN F(100)
    ELSE L

\* Mutant of lab_2: the factor is 200 instead of -200.
lab_2_mut(gz, lunit) == FMul(FSub(gz, lunit), F(200))

\* lab[2] = (lab_g_inverse(xyz[2] / pWhitePoint->w) - lunit) * -200.
lab_2(gz, lunit) == FMul(FSub(gz, lunit), F(-200))

\* xyz_to_lab(xyz, lab, pciec), wp being pciec->points.WhitePoint.
xyz_to_lab(v, wp) ==
    LET L == ClampL(FSub(FMul(lab_g_inverse(FDiv(v[2], wp[2])), F(116)), F(16)))
        lunit == FDiv(FAdd(L, F(16)), F(116))
    IN  [j \in 0..2 |->
            IF j = 1 THEN L
            ELSE IF j = 0
                 THEN FMul(FSub(lab_g_inverse(FDiv(v[1], wp[1])), lunit), F(500))
                 ELSE lab_2(lab_g_inverse(FDiv(v[3], wp[3])), lunit)]

(***************************************************************************)
(* cache_arg and the sample points of write_a2b0 and lab_range.            *)
(***************************************************************************)
\* A const gs_range_t *: NULL, or a range.
NullRange == [given |-> FALSE, rmin |-> F(0), rmax |-> F(0)]
Range(lo, hi) == [given |-> TRUE, rmin |-> lo, rmax |-> hi]

\* The ranges a caller may pass, one per channel (C index 0 .. 3).
GivenRanges ==
    [j \in 0..3 |->
        IF j = 0 THEN Range(F(0), F(1))
        ELSE IF j = 1 THEN Range(F(-1), F(1))
        ELSE IF j = 2 THEN Range(Frac(1, 2), F(3))
        ELSE Range(F(-128), F(127))]

\* pnt->ranges = *pprange: NULL, or the ranges of the caller.
PntRanges == {"NULL", "given"}

\* pnt->ranges ? pnt->ranges + j : NULL.
RangePtr(rs, j) == IF rs = "NULL" THEN NullRange ELSE GivenRanges[j]

\* cache_arg(i, denom, range).
cache_arg(n, denom, range) ==
    LET arg == Frac(n, denom)
    IN  IF range.given
        THEN FAdd(FMul(arg, FSub(range.rmax, range.rmin)), range.rmin)
        ELSE arg

\* Mutant of clut_n: the loop runs from the first channel to the last.
RECURSIVE clut_n_mut(_, _, _, _)
clut_n_mut(e, j, s, k) == IF j = 0 THEN e ELSE clut_n_mut(e, j - 1, s, k) \div s

\* write_a2b0: the value of n when the loop
\* for (n = i, j = ncomps - 1; j >= 0; --j, n /= num_points) reaches j.
RECURSIVE clut_n(_, _, _, _)
clut_n(e, j, s, k) == IF j = k - 1 THEN e ELSE clut_n(e, j + 1, s, k) \div s

\* write_a2b0: in[j] = cache_arg(n % num_points, num_points - 1, ...) for
\* CLUT entry e of a table with k channels and s points on each axis.
clut_in(e, s, k, rs) ==
    [j \in 0..(k - 1) |-> cache_arg(clut_n(e, j, s, k) % s, s - 1, RangePtr(rs, j))]

\* lab_range: in[j] = (i & (1 << j) ? ranges[j].rmax : ranges[j].rmin).
corner_in(c, k, rs) ==
    [j \in 0..(k - 1) |->
        IF (c \div (2 ^ j)) % 2 = 1 THEN RangePtr(rs, j).rmax
        ELSE RangePtr(rs, j).rmin]

(***************************************************************************)
(* Profile tables.                                                         *)
(***************************************************************************)
NoBytes == << >>

\* add_table: data_length = length, no writer.
add_table(tag, data, length) ==
    [tag |-> tag, data |-> data, length |-> length, data_length |-> length,
     write |-> "NULL"]

\* add_table_xyz3: a 20-byte "XYZ " tag.
add_table_xyz3(tag, pv) == add_table(tag, xyz3_bytes(pv), XYZ_SIZE)

\* add_trc: a "curv" tag, 12 literal bytes plus count 16-bit samples written
\* by write_trc_abc or write_trc_lmn.
add_trc(tag, os) ==
    [add_table(tag, NoBytes, TRC_SIZE) EXCEPT
        !.length = @ + gx_cie_cache_size * 2,
        !.write = IF os = "ONE_STEP_ABC" THEN "write_trc_abc" ELSE "write_trc_lmn"]

\* Mutant of a2b0_num_points: num_points = min(num_points, 255) is left out.
a2b0_num_points_mut(n) == root_floor(n)

\* add_a2b0: num_points and count.
a2b0_num_points(n) == Min(root_floor(n), CLUT_POINTS_MAX)
a2b0_count(n) == pow_int(a2b0_num_points(n), n)

\* Mutant of a2b0_length: the output table is left out of the declared length.
a2b0_length_mut(n) ==
    A2B0_HEADER_SIZE + n * 2 * NUM_IN_ENTRIES + a2b0_count(n) * (3 * 2)

\* add_a2b0: the declared length of the A2B0 tag.
a2b0_length(n) ==
    A2B0_HEADER_SIZE + n * 2 * NUM_IN_ENTRIES + a2b0_count(n) * (3 * 2)
        + 3 * 2 * NUM_OUT_ENTRIES

\* add_a2b0: only the fixed 52-byte header is literal data.
add_a2b0(n) ==
    [add_table("A2B0", NoBytes, a2b0_length(n)) EXCEPT
        !.data_length = A2B0_HEADER_SIZE, !.write = "write_a2b0"]

\* Mutant of UseTRC: ONE_STEP_LMN is forgotten.
UseTRC_mut(os, pm) == os = "ONE_STEP_ABC" /\ pm # "NULL"

\* Use TRC + XYZ if possible, otherwise AToB.
UseTRC(os, pm) == (os = "ONE_STEP_ABC" \/ os = "ONE_STEP_LMN") /\ pm # "NULL"

\* Mutant of wtpt_vector: the source white point (64ths, brought to units of
\* 2^-24) is written instead of D50.
wtpt_vector_mut(wp) == [k \in 1..3 |-> wp[k] * 262144]

\* wtpt: the vector the white point tag is built from.
wtpt_vector(wp) == white_d50

\* Construct the tables: desc, wtpt, cprt, then TRC + XYZ or A2B0.
BuildTables(n, os, pm, wp) ==
    << add_table("desc", NoBytes, DESC_SIZE),
       add_table_xyz3("wtpt", wtpt_vector(wp)),
       add_table("cprt", NoBytes, CPRT_SIZE) >>
    \o ( IF UseTRC(os, pm)
         THEN << add_trc("rTRC", os), add_trc("gTRC", os), add_trc("bTRC", os),
                 add_table_xyz3("rXYZ", adjust_wp(Matrix(pm).cu, wp, white_d50)),
                 add_table_xyz3("gXYZ", adjust_wp(Matrix(pm).cv, wp, white_d50)),
                 add_table_xyz3("bXYZ", adjust_wp(Matrix(pm).cw, wp, white_d50)) >>
         ELSE << add_a2b0(n) >> )

\* uint table_size = 4 + num_tables * 12.
table_size(num_tables) == 4 + num_tables * 12

\* Mutant of offset_step: the offset advances by the unpadded length.
offset_step_mut(length) == length

\* What a tag adds to the running offset.
offset_step(length) == round_up(length, 4)

\* The offset of table i: the accumulator after tables 1 .. i-1.
RECURSIVE table_offset(_, _)
table_offset(tbls, i) ==
    IF i = 1 THEN HEADER_SIZE + table_size(Len(tbls))
    ELSE table_offset(tbls, i - 1) + offset_step(tbls[i - 1].length)

\* The directory entries set_uint32(p + 4, offset), set_uint32(p + 8, length).
Directory(tbls) ==
    [i \in 1..Len(tbls) |->
        [tag |-> tbls[i].tag, offset |-> table_offset(tbls, i),
         length |-> tbls[i].length]]

\* set_uint32(header, offset): the accumulator after the last table.
ProfileSize(tbls) ==
    table_offset(tbls, Len(tbls)) + offset_step(tbls[Len(tbls)].length)

(***************************************************************************)
(* The cos objects.                                                        *)
(***************************************************************************)
\* A cos_stream_t: state "none" (never allocated), "live" or "freed"; the /N
\* and /Alternate keys of its dictionary; the bytes added; the object id
\* (0: none assigned) and whether cos_write_object wrote it.
NoStream ==
    [state |-> "none", N |-> 0, Alternate |-> FALSE, length |-> 0, id |-> 0,
     written |-> FALSE]

NoA2b0 == [ncomps |-> 0, num_points |-> 0, count |-> 0]
NoHeader == [size |-> 0, illuminant |-> NoBytes]

\* The collaborator calls of pdf_make_iccbased, in the order it makes them.
MakeCalls ==
    {"none", "cos_array_add", "cos_stream_alloc", "cos_dict_put_c_key_int",
     "pdf_color_space_named", "cos_dict_put_c_key", "cos_array_add_object"}

\* Mutant of DefaultableNcomps: four components are not accepted.
DefaultableNcomps_mut(n) == n = 1 \/ n = 3

\* We can only use a default for Gray, RGB or CMYK.
DefaultableNcomps(n) == n = 1 \/ n = 3 \/ n = 4

\* pdf_make_iccbased(pdev, pgs, pca, ncomps, prange, pcs_alt, &pcstrm, pprange)
\* where the call named f (if it is reached) fails with e.  The result: the
\* return code, the array, the stream and whether *ppcstrm was assigned.
pdf_make_iccbased(arr, n, alt, f, e) ==
    LET s0 == [NoStream EXCEPT !.state = "live"]
        s1 == [s0 EXCEPT !.N = n]
        named == alt # "NULL" /\ alt # "Device"
        s2 == IF named THEN [s1 EXCEPT !.Alternate = TRUE] ELSE s1
        arr1 == Append(arr, "/ICCBased")
        fail(c, a, s) ==
            [code |-> c, pca |-> a,
             strm |-> IF s.state = "live" THEN [s EXCEPT !.state = "freed"] ELSE s,
             pcstrm |-> "unset"]
    IN  IF f = "cos_array_add"
        THEN [code |-> e, pca |-> arr, strm |-> NoStream, pcstrm |-> "unset"]
        ELSE IF f = "cos_stream_alloc" THEN fail(gs_error_VMerror, arr1, NoStream)
        ELSE IF f = "cos_dict_put_c_key_int" THEN fail(e, arr1, s0)
        ELSE IF named /\ f = "pdf_color_space_named" THEN fail(e, arr1, s1)
        ELSE IF named /\ f = "cos_dict_put_c_key" THEN fail(e, arr1, s1)
        ELSE IF alt = "NULL" /\ ~DefaultableNcomps(n)
             THEN fail(gs_error_rangecheck, arr1, s1)
        ELSE IF f = "cos_array_add_object" THEN fail(e, arr1, s2)
        ELSE [code |-> 0, pca |-> Append(arr1, "stream"), strm |-> s2,
              pcstrm |-> "set"]

\* pdf_obj_ref: the id given to the first indirect object of the call.
pdf_obj_ref == 1

\* pdf_finish_iccbased: assign an ID, and write the object out now; r is the
\* result of cos_write_object.
pdf_finish_iccbased(s, r) == [s EXCEPT !.id = pdf_obj_ref, !.written = (r >= 0)]

\* A triple of doubles, double lab[3] and gs_range range_out[3] before they
\* are set.
NoXYZ == << F(0), F(0), F(0) >>
NoLab == [j \in 0..2 |-> F(0)]
NoRangeOut == [j \in 1..2 |-> [rmin |-> F(0), rmax |-> F(0)]]
NoTable == [n |-> 0, dims |-> << >>, m |-> 0, table |-> << >>]

(***************************************************************************)
(* Initial state: one of the two entry points has just been called.        *)
(***************************************************************************)
\* Nothing has been read, built or returned yet.
Fresh ==
    /\ CompatibilityLevel = 0
    /\ ncomps = 0
    /\ one_step = "unread"
    /\ pmat = "unread"
    /\ WhitePoint = NoVector
    /\ data_cs = "unread"
    /\ num_comps = 0
    /\ base_space = "unread"
    /\ major = -1
    /\ minor = -1
    /\ pgs = "unread"
    /\ pca = << >>
    /\ strm = NoStream
    /\ pcstrm = "unset"
    /\ tables = << >>
    /\ bytes = << >>
    /\ header = NoHeader
    /\ a2b0 = NoA2b0
    /\ ti = 0
    /\ ci = 0
    /\ code = 0
    /\ loc = 0
    /\ err = 0
    /\ err_len = 0
    /\ gs_allocs = 0
    /\ gs_frees = 0
    /\ pres = "none"
    /\ downgrade_icc = FALSE
    /\ streamed = << >>
    /\ ranges = "unread"
    /\ in = << >>
    /\ cs_index = "unread"
    /\ pWhitePoint = NoXYZ
    /\ xyz_float = NoXYZ
    /\ xyz = NoXYZ
    /\ lab = NoLab
    /\ range_out = NoRangeOut
    /\ corner = 0
    /\ pclt = NoTable
    /\ pi = << >>
    /\ pv_nearest = << >>
    /\ pv_linear = << >>

Init ==
    /\ pc \in {"pdf_convert_cie_space", "pdf_iccbased_color_space"}
    /\ Fresh

cieArgs == <<ncomps, one_step, pmat, WhitePoint>>
iccArgs == <<data_cs, num_comps, base_space, major, minor, pgs>>
cosVars == <<pca, strm, pcstrm>>
profVars == <<tables, bytes, header, a2b0>>
errVars == <<err, err_len>>
gsVars == <<gs_allocs, gs_frees>>
iccLocals == <<pres, downgrade_icc, streamed>>
sampleVars == <<ranges, in>>
labVars == <<cs_index, pWhitePoint, xyz_float, xyz, lab, range_out, corner>>
cltVars == <<pclt, pi, pv_nearest, pv_linear>>

\* cos_stream_add_bytes(pdev, pcstrm, data, n) returning r: a failing call
\* adds nothing.  err and err_len record the first error and where it came.
cos_stream_add_bytes(n, r) ==
    /\ strm' = IF r < 0 THEN strm ELSE [strm EXCEPT !.length = @ + n]
    /\ err' = IF r < 0 /\ err = 0 THEN r ELSE err
    /\ err_len' = IF r < 0 /\ err = 0 THEN strm.length ELSE err_len

\* return c.
Return(c) == pc' = "done" /\ code' = c

\* Continue at label l.
Goto(l) == pc' = l /\ code' = code

(***************************************************************************)
(* pdf_convert_cie_space and pdf_convert_cie_to_lab.                       *)
(***************************************************************************)
\* PDF 1.2 or earlier, use a Lab space; PDF 1.3 or later, use an ICCBased
\* space.
UseLab(level) == level < 130

pdf_convert_cie_space ==
    /\ pc = "pdf_convert_cie_space"
    /\ \E l \in CieLevels :
        /\ CompatibilityLevel' = l
        /\ Goto(IF UseLab(l) THEN "pdf_convert_cie_to_lab"
                ELSE "pdf_convert_cie_to_iccbased")
    /\ UNCHANGED <<sampleVars, labVars, cltVars, cieArgs, iccArgs, cosVars, profVars, ti, ci, loc, errVars,
                   gsVars, iccLocals>>

\* NOT IMPLEMENTED YET, REQUIRES TRANSFORMING VALUES: if (1) return_error(...).
LabNotImplemented == TRUE

\* pdf_convert_cie_to_lab.  The statements after the unconditional return
\* (cos_dict_alloc, lab_range, pdf_put_lab_color_space, pdf_finish_cie_space)
\* are given as the ELSE branch: they add "/Lab" and return the result r of
\* the last collaborator reached.
pdf_convert_cie_to_lab ==
    /\ pc = "pdf_convert_cie_to_lab"
    /\ IF LabNotImplemented
       THEN /\ Return(gs_error_rangecheck)
            /\ pca' = pca
       ELSE \E r \in CallResults :
            /\ Return(r)
            /\ pca' = Append(pca, "/Lab")
    /\ UNCHANGED <<sampleVars, labVars, cltVars, CompatibilityLevel, cieArgs, iccArgs, strm, pcstrm, profVars,
                   ti, ci, loc, errVars, gsVars, iccLocals>>

(***************************************************************************)
(* pdf_convert_cie_to_iccbased.                                            *)
(***************************************************************************)
\* pdf_cspace_init_Device, pdf_make_iccbased, rc_decrement_cs.
cie_make_iccbased ==
    /\ pc = "pdf_convert_cie_to_iccbased"
    /\ \E n \in CieNcomps, f \in MakeCalls, e \in ErrCodes :
        LET r == pdf_make_iccbased(pca, n, "Device", f, e)
        IN  /\ ncomps' = n
            /\ pca' = r.pca
            /\ strm' = r.strm
            /\ pcstrm' = r.pcstrm
            /\ IF r.code < 0 THEN Return(r.code) ELSE Goto("cie_header")
    /\ UNCHANGED <<sampleVars, labVars, cltVars, CompatibilityLevel, one_step, pmat, WhitePoint, iccArgs,
                   profVars, ti, ci, loc, errVars, gsVars, iccLocals>>

\* Fill in the header, construct the tables, build the directory, set the
\* profile size and add the header to the stream.
cie_header ==
    /\ pc = "cie_header"
    /\ \E os \in OneSteps :
       \E pm \in (IF os = "ONE_STEP_ABC" \/ os = "ONE_STEP_LMN"
                  THEN Pmats ELSE {pmat}) :
       \E wp \in (IF UseTRC(os, pm) THEN WhitePoints ELSE {WhitePoint}) :
       \E r \in CallResults :
        LET t == BuildTables(ncomps, os, pm, wp)
        IN  /\ one_step' = os
            /\ pmat' = pm
            /\ WhitePoint' = wp
            /\ tables' = t
            /\ a2b0' = IF UseTRC(os, pm) THEN a2b0
                       ELSE [ncomps |-> ncomps,
                             num_points |-> a2b0_num_points(ncomps),
                             count |-> a2b0_count(ncomps)]
            /\ bytes' = Directory(t)
            /\ header' = [size |-> ProfileSize(t), illuminant |-> t[2].data]
            /\ cos_stream_add_bytes(HEADER_SIZE, r)
            /\ IF r < 0 THEN Return(r) ELSE Goto("cie_directory")
    /\ UNCHANGED <<sampleVars, labVars, cltVars, CompatibilityLevel, ncomps, iccArgs, pca, pcstrm, ti, ci,
                   loc, gsVars, iccLocals>>

\* cos_stream_add_bytes(pdev, pcstrm, bytes, table_size).
cie_directory ==
    /\ pc = "cie_directory"
    /\ \E r \in CallResults :
        /\ cos_stream_add_bytes(table_size(Len(tables)), r)
        /\ IF r < 0 THEN Return(r) /\ ti' = ti
           ELSE Goto("cie_table_data") /\ ti' = 1
    /\ UNCHANGED <<sampleVars, labVars, cltVars, CompatibilityLevel, cieArgs, iccArgs, pca, pcstrm, profVars,
                   ci, loc, gsVars, iccLocals>>

\* Where the loop over the tables goes after the literal data of a table.
AfterData(t) ==
    IF t.write = "NULL" THEN "cie_table_pad"
    ELSE IF t.write = "write_a2b0" THEN "write_a2b0_in"
    ELSE "write_trc"

\* cos_stream_add_bytes(pdev, pcstrm, tables[i].data, len).
cie_table_data ==
    /\ pc = "cie_table_data"
    /\ \E r \in CallResults :
        /\ cos_stream_add_bytes(tables[ti].data_length, r)
        /\ IF r < 0 THEN Return(r) ELSE Goto(AfterData(tables[ti]))
    /\ UNCHANGED <<sampleVars, labVars, cltVars, CompatibilityLevel, cieArgs, iccArgs, pca, pcstrm, profVars,
                   ti, ci, loc, gsVars, iccLocals>>

\* write_trc_abc, write_trc_lmn: the samples are added in one call.
write_trc ==
    /\ pc = "write_trc"
    /\ \E r \in CallResults :
        /\ cos_stream_add_bytes(gx_cie_cache_size * 2, r)
        /\ IF r < 0 THEN Return(r) ELSE Goto("cie_table_pad")
    /\ UNCHANGED <<sampleVars, labVars, cltVars, CompatibilityLevel, cieArgs, iccArgs, pca, pcstrm, profVars,
                   ti, ci, loc, gsVars, iccLocals>>

\* write_a2b0: write the input table.
write_a2b0_in ==
    /\ pc = "write_a2b0_in"
    /\ \E r \in CallResults :
        /\ cos_stream_add_bytes(a2b0.ncomps * 4, r)
        /\ IF r < 0 THEN Return(r) ELSE Goto("write_a2b0_alloc")
    /\ UNCHANGED <<sampleVars, labVars, cltVars, CompatibilityLevel, cieArgs, iccArgs, pca, pcstrm, profVars,
                   ti, ci, loc, gsVars, iccLocals>>

\* write_a2b0: code = gx_cie_to_xyz_alloc(&pgs, pcs, mem).
write_a2b0_alloc ==
    /\ pc = "write_a2b0_alloc"
    /\ \E r \in CallResults :
        /\ gs_allocs' = IF r < 0 THEN gs_allocs ELSE gs_allocs + 1
        /\ err' = IF r < 0 /\ err = 0 THEN r ELSE err
        /\ err_len' = IF r < 0 /\ err = 0 THEN strm.length ELSE err_len
        /\ IF r < 0 THEN Return(r) ELSE Goto("write_a2b0_clut")
        /\ ci' = 0
    /\ UNCHANGED <<sampleVars, labVars, cltVars, CompatibilityLevel, cieArgs, iccArgs, cosVars, profVars, ti,
                   loc, gs_frees, iccLocals>>

\* The bytes of one CLUT entry: XYZ, 16-bit values.
CLUT_ENTRY_SIZE == 6

\* write_a2b0: one pass of the loop over the lookup table; a failing add
\* breaks out of the loop to gx_cie_to_xyz_free.
write_a2b0_clut ==
    /\ pc = "write_a2b0_clut"
    /\ ci < a2b0.count
    /\ \E rs \in (IF ci = 0 THEN PntRanges ELSE {ranges}) :
        /\ ranges' = rs
        /\ in' = clut_in(ci, a2b0.num_points, a2b0.ncomps, rs)
    /\ \E r \in CallResults :
        /\ cos_stream_add_bytes(CLUT_ENTRY_SIZE, r)
        /\ loc' = r
        /\ ci' = IF r < 0 THEN ci ELSE ci + 1
        /\ Goto(IF r >= 0 /\ ci + 1 < a2b0.count THEN "write_a2b0_clut"
                ELSE "write_a2b0_free")
    /\ UNCHANGED <<labVars, cltVars, CompatibilityLevel, cieArgs, iccArgs, pca, pcstrm, profVars,
                   ti, gsVars, iccLocals>>

\* Mutant of write_a2b0_free: the graphics state is not released.
write_a2b0_free_mut ==
    /\ pc = "write_a2b0_free"
    /\ IF loc < 0 THEN Return(loc) ELSE Goto("write_a2b0_out")
    /\ UNCHANGED <<sampleVars, labVars, cltVars, CompatibilityLevel, cieArgs,
                   iccArgs, cosVars, profVars, ti, ci, loc, errVars, gsVars,
                   iccLocals>>

\* write_a2b0: gx_cie_to_xyz_free(pgs); if (code < 0) return code.
write_a2b0_free ==
    /\ pc = "write_a2b0_free"
    /\ gs_frees' = gs_frees + 1
    /\ IF loc < 0 THEN Return(loc) ELSE Goto("write_a2b0_out")
    /\ UNCHANGED <<sampleVars, labVars, cltVars, CompatibilityLevel, cieArgs, iccArgs, cosVars, profVars, ti,
                   ci, loc, errVars, gs_allocs, iccLocals>>

\* write_a2b0: write the output table.
write_a2b0_out ==
    /\ pc = "write_a2b0_out"
    /\ \E r \in CallResults :
        /\ cos_stream_add_bytes(3 * 4, r)
        /\ IF r < 0 THEN Return(r) ELSE Goto("cie_table_pad")
    /\ UNCHANGED <<sampleVars, labVars, cltVars, CompatibilityLevel, cieArgs, iccArgs, pca, pcstrm, profVars,
                   ti, ci, loc, gsVars, iccLocals>>

\* cos_stream_add_bytes(pdev, pcstrm, pad, -(int)(tables[i].length) & 3),
\* then the next table, or pdf_finish_iccbased after the last.
cie_table_pad ==
    /\ pc = "cie_table_pad"
    /\ \E r \in CallResults :
        /\ cos_stream_add_bytes(PadLength(tables[ti].length), r)
        /\ IF r < 0 THEN Return(r) /\ ti' = ti
           ELSE IF ti < Len(tables)
                THEN Goto("cie_table_data") /\ ti' = ti + 1
                ELSE Goto("cie_finish") /\ ti' = ti
    /\ UNCHANGED <<sampleVars, labVars, cltVars, CompatibilityLevel, cieArgs, iccArgs, pca, pcstrm, profVars,
                   ci, loc, gsVars, iccLocals>>

\* return pdf_finish_iccbased(pdev, pcstrm).
cie_finish ==
    /\ pc = "cie_finish"
    /\ \E r \in CallResults :
        /\ strm' = pdf_finish_iccbased(strm, r)
        /\ Return(r)
    /\ UNCHANGED <<sampleVars, labVars, cltVars, CompatibilityLevel, cieArgs, iccArgs, pca, pcstrm, profVars,
                   ti, ci, loc, errVars, gsVars, iccLocals>>

(***************************************************************************)
(* pdf_iccbased_color_space.                                               *)
(***************************************************************************)
\* Mutant of NotSuitableForPDF: the case label gsNAMED is missing.
NotSuitableForPDF_mut(cs) == cs \in {"gsUNDEFINED", "gsNCHANNEL"}

\* The switch on data_cs: the profiles returned with gs_error_rangecheck.
NotSuitableForPDF(cs) == cs \in RejectedDataCS

icc_data_cs ==
    /\ pc = "pdf_iccbased_color_space"
    /\ \E cs \in DataCS :
        /\ data_cs' = cs
        /\ IF NotSuitableForPDF(cs) THEN Return(gs_error_rangecheck)
           ELSE Goto("icc_make_iccbased")
    /\ UNCHANGED <<sampleVars, labVars, cltVars, CompatibilityLevel, cieArgs, num_comps, base_space, major,
                   minor, pgs, cosVars, profVars, ti, ci, loc, errVars, gsVars,
                   iccLocals>>

\* code = pdf_make_iccbased(pdev, pgs, pca, num_comps, ranges, base_space,
\* &pcstrm, NULL); if (code < 0) return code.
icc_make_iccbased ==
    /\ pc = "icc_make_iccbased"
    /\ \E n \in IccNumComps, alt \in BaseSpaces, p \in PgsValues,
          f \in MakeCalls, e \in ErrCodes :
        LET r == pdf_make_iccbased(pca, n, alt, f, e)
        IN  /\ num_comps' = n
            /\ base_space' = alt
            /\ pgs' = p
            /\ pca' = r.pca
            /\ strm' = r.strm
            /\ pcstrm' = r.pcstrm
            /\ IF r.code < 0 THEN Return(r.code) ELSE Goto("icc_version")
    /\ UNCHANGED <<sampleVars, labVars, cltVars, CompatibilityLevel, cieArgs, data_cs, major, minor, profVars,
                   ti, ci, loc, errVars, gsVars, iccLocals>>

\* Mutant of DowngradeNeeded: at level 1.5 the minor version is not looked at.
DowngradeNeeded_mut(level, mj, mn) ==
    IF level < 150 THEN mj > 2
    ELSE IF level = 150 THEN mj > 4
    ELSE IF level = 160 THEN mj > 4 \/ mn > 1
    ELSE mj > 4 \/ mn > 2

\* Determine whether we need to get the CMS to give us an earlier ICC version
\* of the profile (level >= 1.3).
DowngradeNeeded(level, mj, mn) ==
    IF level < 150 THEN mj > 2
    ELSE IF level = 150 THEN mj > 4 \/ mn > 0
    ELSE IF level = 160 THEN mj > 4 \/ mn > 1
    ELSE mj > 4 \/ mn > 2

\* if (pdev->CompatibilityLevel < 1.3) return_error(gs_error_rangecheck).
BelowICC(level) == level < 130

\* gsicc_getprofilevers, minor = minor >> 4, and the version gate.
icc_version ==
    /\ pc = "icc_version"
    /\ \E mj \in Majors, mb \in MinorBytes, l \in IccLevels :
        /\ major' = mj
        /\ minor' = mb \div 16
        /\ CompatibilityLevel' = l
        /\ IF BelowICC(l)
           THEN Return(gs_error_rangecheck) /\ downgrade_icc' = downgrade_icc
           ELSE /\ Goto("icc_stream")
                /\ downgrade_icc' = DowngradeNeeded(l, mj, mb \div 16)
    /\ UNCHANGED <<sampleVars, labVars, cltVars, cieArgs, data_cs, num_comps, base_space, pgs, cosVars,
                   profVars, ti, ci, loc, errVars, gsVars, pres, streamed>>

\* Mutant of MissingGstate: pgs is tested before downgrade_icc.
MissingGstate_mut(downgrade, p) == p = "NULL"

\* if (downgrade_icc) { if (pgs == NULL) return (gs_error_undefined); ... }
MissingGstate(downgrade, p) == downgrade /\ p = "NULL"

\* Transfer the buffer data: the v2 buffer of gsicc_create_getv2buffer if
\* downgrade_icc (undefined without a pgs), the profile's own buffer if not.
icc_stream ==
    /\ pc = "icc_stream"
    /\ IF MissingGstate(downgrade_icc, pgs)
       THEN /\ Return(gs_error_undefined)
            /\ UNCHANGED <<strm, errVars, loc, streamed>>
       ELSE \E r \in CallResults :
            \* the size of either buffer is not modelled: one byte stands for it
            /\ cos_stream_add_bytes(1, r)
            /\ streamed' = Append(streamed,
                                  IF downgrade_icc THEN "v2_buffer" ELSE "buffer")
            /\ loc' = r
            /\ Goto("icc_resource")
    /\ UNCHANGED <<sampleVars, labVars, cltVars, CompatibilityLevel, cieArgs, iccArgs, pca, pcstrm, profVars,
                   ti, ci, gsVars, pres, downgrade_icc>>

\* Mutant of FinishGuard: the stream is finished whatever the append returned.
FinishGuard_mut(c) == TRUE

\* if (code >= 0) code = pdf_finish_iccbased(pdev, pcstrm).
FinishGuard(c) == c >= 0

\* code1 = pdf_alloc_resource(pdev, resourceOther, pcstrm->id, &pres, -1);
\* on success pres->object = pcstrm.
icc_resource ==
    /\ pc = "icc_resource"
    /\ \E r1 \in CallResults :
        pres' = IF r1 >= 0 THEN "registered" ELSE "failed"
    /\ IF FinishGuard(loc) THEN Goto("icc_finish") ELSE Return(loc)
    /\ UNCHANGED <<sampleVars, labVars, cltVars, CompatibilityLevel, cieArgs, iccArgs, cosVars, profVars, ti,
                   ci, loc, errVars, gsVars, downgrade_icc, streamed>>

\* code = pdf_finish_iccbased(pdev, pcstrm); return code.
icc_finish ==
    /\ pc = "icc_finish"
    /\ \E r \in CallResults :
        /\ strm' = pdf_finish_iccbased(strm, r)
        /\ Return(r)
    /\ UNCHANGED <<sampleVars, labVars, cltVars, CompatibilityLevel, cieArgs, iccArgs, pca, pcstrm, profVars,
                   ti, ci, loc, errVars, gsVars, iccLocals>>

(***************************************************************************)
(* lab_range, and cie_to_xyz and xyz_to_lab called on their own.           *)
(* pdf_convert_cie_to_lab returns before it reaches lab_range, so these    *)
(* functions are followed from their own entry.                            *)
(***************************************************************************)
\* Multiples of the white the values of the model are taken from: cubes of
\* fractions, of which pow(v, 1.0 / 3) is exact.
CubeVals == {F(0), Frac(1, 1000), Frac(1, 8), F(1), F(8)}
\* The same with a negative value and the breakpoint of lab_g_inverse.
CubeValsExt == CubeVals \cup {Frac(-1, 8), Frac(216, 24389)}

\* The vector (x * 0.9642, y, z * 0.8249).
OfD50(x, y, z) == << FMul(D50_X, x), y, FMul(D50_Z, z) >>

\* Source white points pciec->points.WhitePoint: D50, and two with X, Y and Z
\* scaled differently (Y different from 1).
LabWhitePoints ==
    {OfD50(F(1), F(1), F(1)), OfD50(Frac(1, 8), F(8), F(1)),
     OfD50(F(8), Frac(1, 8), Frac(1, 8))}

\* What gx_psconcretize_CIE* may leave in xyz_float: black, white, a gray,
\* a color beyond white, and two colors with unequal components.
Concretized ==
    {OfD50(F(0), F(0), F(0)), OfD50(F(1), F(1), F(1)),
     OfD50(Frac(1, 8), Frac(1, 8), Frac(1, 8)), OfD50(F(8), F(8), F(8)),
     OfD50(F(1), Frac(1, 8), Frac(1, 1000)), OfD50(Frac(1, 1000), F(1), F(8))}

\* The xyz a caller may pass to xyz_to_lab.
XYZInputs == {OfD50(x, y, z) : x \in CubeValsExt, y \in CubeValsExt, z \in CubeValsExt}

\* range_out[j].rmin = 1000.0, range_out[j].rmax = -1000.0 for j = 1, 2.
EmptyRangeOut == [j \in 1..2 |-> [rmin |-> F(1000), rmax |-> F(-1000)]]

\* range_out[j].rmin = min(range_out[j].rmin, lab[j]) and the same with max,
\* for (j = 1; j < 3; ++j).
widen(ro, l) ==
    [j \in 1..2 |-> [rmin |-> FMin(ro[j].rmin, l[j]), rmax |-> FMax(ro[j].rmax, l[j])]]

mainVars ==
    <<CompatibilityLevel, one_step, pmat, WhitePoint, iccArgs, cosVars,
      profVars, ti, ci, loc, errVars, iccLocals>>

\* lab_range: ncomp, code = gx_cie_to_xyz_alloc(&pgs, pcs, mem), and the
\* first loop.
lab_range_alloc ==
    /\ pc = "lab_range"
    /\ \E cs \in CieIndexes, r \in CallResults :
        /\ cs_index' = cs
        /\ ncomps' = num_components(cs)
        /\ IF r < 0
           THEN Return(r) /\ UNCHANGED <<gs_allocs, range_out>>
           ELSE /\ Goto("lab_range_corner")
                /\ gs_allocs' = gs_allocs + 1
                /\ range_out' = EmptyRangeOut
    /\ corner' = 0
    /\ UNCHANGED <<mainVars, cltVars, sampleVars, pWhitePoint, xyz_float, xyz, lab,
                   gs_frees>>

\* lab_range: one pass of for (i = 0; i < 1 << ncomp; ++i).
lab_range_corner ==
    /\ pc = "lab_range_corner"
    /\ corner < 2 ^ ncomps
    /\ \E wp \in (IF corner = 0 THEN LabWhitePoints ELSE {pWhitePoint}),
          conc \in Concretized :
        LET r == cie_to_xyz(cs_index, conc, wp)
        IN  /\ ranges' = "given"
            /\ in' = corner_in(corner, ncomps, "given")
            /\ pWhitePoint' = wp
            /\ xyz_float' = r.xyz_float
            /\ xyz' = r.out
            /\ IF r.code >= 0
               THEN /\ lab' = xyz_to_lab(r.out, wp)
                    /\ range_out' = widen(range_out, xyz_to_lab(r.out, wp))
               ELSE UNCHANGED <<lab, range_out>>
    /\ corner' = corner + 1
    /\ Goto(IF corner + 1 < 2 ^ ncomps THEN "lab_range_corner"
            ELSE "lab_range_free")
    /\ UNCHANGED <<mainVars, cltVars, ncomps, cs_index, gsVars>>

\* lab_range: gx_cie_to_xyz_free(pgs); return 0.
lab_range_free ==
    /\ pc = "lab_range_free"
    /\ gs_frees' = gs_frees + 1
    /\ Return(0)
    /\ UNCHANGED <<mainVars, cltVars, ncomps, sampleVars, labVars, gs_allocs>>

\* A call of cie_to_xyz for a color space of any index.
call_cie_to_xyz ==
    /\ pc = "cie_to_xyz"
    /\ \E cs \in CieIndexes \cup OtherIndexes, wp \in LabWhitePoints,
          conc \in Concretized :
        LET r == cie_to_xyz(cs, conc, wp)
        IN  /\ cs_index' = cs
            /\ ncomps' = num_components(cs)
            /\ pWhitePoint' = wp
            /\ xyz_float' = r.xyz_float
            /\ xyz' = r.out
            /\ Return(r.code)
    /\ UNCHANGED <<mainVars, cltVars, sampleVars, lab, range_out, corner, gsVars>>

\* A call of xyz_to_lab.
call_xyz_to_lab ==
    /\ pc = "xyz_to_lab"
    /\ \E v \in XYZInputs, wp \in LabWhitePoints :
        /\ xyz' = v
        /\ pWhitePoint' = wp
        /\ lab' = xyz_to_lab(v, wp)
    /\ pc' = "done"
    /\ UNCHANGED <<mainVars, cltVars, ncomps, sampleVars, cs_index, xyz_float, range_out,
                   corner, gsVars, code>>

InitLab ==
    /\ pc \in {"lab_range", "cie_to_xyz", "xyz_to_lab"}
    /\ Fresh

NextLab ==
    \/ lab_range_alloc
    \/ lab_range_corner
    \/ lab_range_free
    \/ call_cie_to_xyz
    \/ call_xyz_to_lab

SpecLab == InitLab /\ [][NextLab]_vars

(***************************************************************************)
(* Color lookup tables (base/gxctable.h).  The header gives the table      *)
(* layout and declares gx_color_interpolate_nearest and                    *)
(* gx_color_interpolate_linear; what the two functions compute follows the *)
(* description of the lookup-table interpolator (nearest: the row at the   *)
(* given indices; linear: multilinear interpolation between the 2^n        *)
(* surrounding grid points by the fractional offsets, exact).              *)
(***************************************************************************)
\* A fixed has 8 fractional bits: fixed_1 is the fixed 1.0.
fixed_1 == 256
fixed2int(x) == x \div fixed_1
fixed_fraction(x) == x % fixed_1
fixed2int_rounded(x) == (x + fixed_1 \div 2) \div fixed_1

\* The m bytes of the table at the grid point ix[0..n-1].  For n = 3,
\* table[i] is a string of dims[1] x dims[2] x m bytes; for n = 4,
\* table[i], i < dims[0] x dims[1], is a string of dims[2] x dims[3] x m.
clt_row(t, ix) ==
    LET s == IF t.n = 3 THEN t.table[ix[0] + 1]
             ELSE t.table[ix[0] * t.dims[1] + ix[1] + 1]
        o == IF t.n = 3 THEN (ix[1] * t.dims[2] + ix[2]) * t.m
             ELSE (ix[2] * t.dims[3] + ix[3]) * t.m
    IN  [k \in 0..(t.m - 1) |-> s[o + k + 1]]

\* Nearest mode: the row at the indices, each rounded to the nearest integer.
gx_color_interpolate_nearest(q, t) ==
    LET row == clt_row(t, [j \in 0..(t.n - 1) |-> fixed2int_rounded(q[j])])
    IN  [k \in 0..(t.m - 1) |-> F(row[k])]

\* Mutant of lerp: the two weights are exchanged.
lerp_mut(w, lo, hi) == FAdd(FMul(w, lo), FMul(FSub(F(1), w), hi))

\* Linear interpolation between lo (offset 0) and hi (offset 1) at offset w.
lerp(w, lo, hi) == FAdd(FMul(FSub(F(1), w), lo), FMul(w, hi))

\* Component k interpolated along the axes j .. n-1, the axes before j being
\* fixed at ix.  The upper neighbour of the last grid point is that point.
RECURSIVE clt_lerp(_, _, _, _, _)
clt_lerp(t, q, k, j, ix) ==
    IF j = t.n THEN F(clt_row(t, ix)[k])
    ELSE LET up == IF ix[j] + 1 < t.dims[j] THEN ix[j] + 1 ELSE ix[j]
         IN  lerp(Frac(fixed_fraction(q[j]), fixed_1),
                  clt_lerp(t, q, k, j + 1, ix),
                  clt_lerp(t, q, k, j + 1, [ix EXCEPT ![j] = up]))

\* Linear mode: trilinear (n = 3) or quadrilinear (n = 4) interpolation of
\* each output component on its own.
gx_color_interpolate_linear(q, t) ==
    [k \in 0..(t.m - 1) |->
        clt_lerp(t, q, k, 0, [j \in 0..(t.n - 1) |-> fixed2int(q[j])])]

\* The tables of the model: byte p of string i.
ByteAt(kind, i, p) ==
    IF kind = "ramp" THEN (16 * i + 3 * p) % 256
    ELSE (37 * i * i + 11 * p * p + 5) % 256
MakeTable(n, dims, m, kind) ==
    [n |-> n, dims |-> dims, m |-> m,
     table |-> [i \in 1..(IF n = 3 THEN dims[0] ELSE dims[0] * dims[1]) |->
                  [p \in 1..(dims[n - 2] * dims[n - 1] * m) |->
                      ByteAt(kind, i - 1, p - 1)]]]
Dims3 == [j \in 0..2 |-> IF j = 1 THEN 3 ELSE 2]
Dims4 == [j \in 0..3 |-> IF j = 2 THEN 3 ELSE 2]
LookupTables ==
    {MakeTable(3, Dims3, m, kind) : m \in {1, 3}, kind \in {"ramp", "curve"}}
    \cup {MakeTable(4, Dims4, m, kind) : m \in {1, 3}, kind \in {"ramp", "curve"}}

\* The queries: every index in [0, dims[j] - 1], on a grid point or a
\* quarter or three quarters of the way to the next one.
Offsets == {0, 64, 192}
FixedIn(d) ==
    {x \in {i * fixed_1 + f : i \in 0..(d - 1), f \in Offsets} :
        x <= (d - 1) * fixed_1}
Queries(t) ==
    {q \in [0..(t.n - 1) -> FixedIn(3)] : \A j \in 0..(t.n - 1) : q[j] \in FixedIn(t.dims[j])}

restVars == <<mainVars, ncomps, sampleVars, labVars, gsVars, code>>

call_interpolate_nearest ==
    /\ pc = "gx_color_interpolate_nearest"
    /\ \E t \in LookupTables :
        \E q \in Queries(t) :
            /\ pclt' = t
            /\ pi' = q
            /\ pv_nearest' = gx_color_interpolate_nearest(q, t)
    /\ pc' = "gx_color_interpolate_linear"
    /\ UNCHANGED <<restVars, pv_linear>>

\* The same query in linear mode.
call_interpolate_linear ==
    /\ pc = "gx_color_interpolate_linear"
    /\ pv_linear' = gx_color_interpolate_linear(pi, pclt)
    /\ pc' = "done"
    /\ UNCHANGED <<restVars, pclt, pi, pv_nearest>>

InitClt ==
    /\ pc = "gx_color_interpolate_nearest"
    /\ Fresh

NextClt ==
    \/ call_interpolate_nearest
    \/ call_interpolate_linear

SpecClt == InitClt /\ [][NextClt]_vars

(***************************************************************************)
(* The specification.                                                      *)
(***************************************************************************)
Next ==
    \/ pdf_convert_cie_space
    \/ pdf_convert_cie_to_lab
    \/ cie_make_iccbased
    \/ cie_header
    \/ cie_directory
    \/ cie_table_data
    \/ write_trc
    \/ write_a2b0_in
    \/ write_a2b0_alloc
    \/ write_a2b0_clut
    \/ write_a2b0_free
    \/ write_a2b0_out
    \/ cie_table_pad
    \/ cie_finish
    \/ icc_data_cs
    \/ icc_make_iccbased
    \/ icc_version
    \/ icc_stream
    \/ icc_resource
    \/ icc_finish

Spec == Init /\ [][Next]_vars

(***************************************************************************)
(* The two users of gx_cie_to_xyz_alloc, write_a2b0 (reached from          *)
(* pdf_convert_cie_space) and lab_range, in one specification.             *)
(***************************************************************************)
InitGs ==
    /\ pc \in {"pdf_convert_cie_space", "pdf_iccbased_color_space", "lab_range",
               "cie_to_xyz", "xyz_to_lab"}
    /\ Fresh

NextGs ==
    \/ Next
    \/ NextLab

SpecGs == InitGs /\ [][NextGs]_vars

(***************************************************************************)
(* Vocabulary of the properties.                                           *)
(***************************************************************************)
\* The running call entered through pdf_convert_cie_space (it reads the
\* compatibility level first) or pdf_iccbased_color_space (data_cs first).
InCie == CompatibilityLevel # 0 /\ data_cs = "unread"
InIcc == data_cs # "unread"
Returned == pc = "done"
\* pdf_convert_cie_to_iccbased has built its tables.
ProfileBuilt == InCie /\ tables # << >>
Tags(t) == [i \in 1..Len(t) |-> t[i].tag]
\* The smallest multiple of 4 that is at least n.
Padded4(n) == CHOOSE m \in n..(n + 3) : m % 4 = 0
\* The sum of the padded lengths of tables 1 .. k.
RECURSIVE PaddedSum(_, _)
PaddedSum(t, k) == IF k = 0 THEN 0 ELSE PaddedSum(t, k - 1) + Padded4(t[k].length)
\* The value of four big-endian bytes at position k of a byte sequence.
Uint32At(b, k) == ((b[k] * 256 + b[k + 1]) * 256 + b[k + 2]) * 256 + b[k + 3]

(***************************************************************************)
(* C1.  On every successful run of pdf_convert_cie_to_iccbased the bytes   *)
(* added to the stream equal the profile size stored in the header, which  *)
(* equals the last tag's directory offset plus its length rounded up to a  *)
(* multiple of 4.  Tag by tag: each tag starts at its directory offset,    *)
(* its literal bytes plus the bytes its writer adds equal its declared     *)
(* length, and the pad after it brings the stream to the next offset.      *)
(***************************************************************************)
C1_StreamMatchesHeader ==
    ProfileBuilt =>
        LET n == Len(tables)
        IN  /\ header.size = bytes[n].offset + Padded4(bytes[n].length)
            /\ (pc = "cie_table_data" => strm.length = bytes[ti].offset)
            /\ (pc = "cie_table_pad" =>
                    strm.length = bytes[ti].offset + tables[ti].length)
            /\ (pc = "cie_finish" => strm.length = header.size)
            /\ (Returned /\ code >= 0 => strm.length = header.size)

\* A 4-channel lookup-table profile was written completely and finished.
C1_Witness ==
    /\ ProfileBuilt /\ Returned /\ code >= 0 /\ strm.written
    /\ ncomps = 4 /\ Len(tables) = 4 /\ ci = 2401
    /\ strm.length = header.size

(***************************************************************************)
(* C2.  The directory is 4 + 12*N bytes long; entry i records the offset   *)
(* 128 + (4 + 12*N) + the sum over j < i of round_up(length_j, 4) and the  *)
(* unpadded length_i; the entries are in the order of the tags; every      *)
(* offset is a multiple of 4.                                              *)
(***************************************************************************)
C2_DirectoryOffsets ==
    ProfileBuilt =>
        LET n == Len(tables)
        IN  /\ Len(bytes) = n
            /\ \A i \in 1..n :
                /\ bytes[i].tag = tables[i].tag
                /\ bytes[i].length = tables[i].length
                /\ bytes[i].offset = 128 + (4 + 12 * n) + PaddedSum(tables, i - 1)
                /\ bytes[i].offset % 4 = 0
            /\ (pc = "cie_directory" => strm.length = 128)
            /\ (pc = "cie_table_data" /\ ti = 1 => strm.length = 128 + 4 + 12 * n)

\* The directory of a 9-tag profile has been added; the first tag is next.
C2_Witness ==
    /\ ProfileBuilt /\ pc = "cie_table_data" /\ ti = 1
    /\ Len(bytes) = 9 /\ strm.length = 128 + 4 + 12 * 9
    /\ bytes[4].offset = 128 + 112 + 96 + 20 + 16

(***************************************************************************)
(* C3.  For every CIE space, pdf_convert_cie_space called with a           *)
(* CompatibilityLevel < 1.3 succeeds, adds the /Lab signature to the color *)
(* space array and allocates no ICC profile stream.                        *)
(***************************************************************************)
C3_LabOutput ==
    InCie /\ CompatibilityLevel < 130 /\ Returned =>
        code >= 0 /\ pca = << "/Lab" >> /\ strm.state = "none"

C5_FourChannelsUseLUT ==
    ProfileBuilt /\ CompatibilityLevel >= 130 /\ ncomps = 4 =>
        /\ \E i \in 1..Len(tables) : tables[i].tag = "A2B0"
        /\ \A i \in 1..Len(tables) :
            tables[i].tag \notin {"rTRC", "gTRC", "bTRC", "rXYZ", "gXYZ", "bXYZ"}

(***************************************************************************)
(* C6.  As claimed: the three fixed-point values of the wtpt tag, divided  *)
(* by 65536, are exactly 0.9642, 1.0 and 0.8249.                           *)
(***************************************************************************)
C6_WtptExactlyD50_Original ==
    ProfileBuilt =>
        /\ 10000 * Uint32At(tables[2].data, 1) = 9642 * 65536
        /\ Uint32At(tables[2].data, 5) = 65536
        /\ 10000 * Uint32At(tables[2].data, 9) = 8249 * 65536

(***************************************************************************)
(* C6, amended.  For every synthesized profile, whatever the source white  *)
(* point, the wtpt tag holds the same three values 63189, 65536, 54060:    *)
(* D50 cut to 16 fractional bits, so that value / 65536 is 1.0 for Y and   *)
(* less than 1/65536 below 0.9642 and 0.8249 for X and Z.  Header bytes    *)
(* 68-79 hold the same 12 bytes.                                           *)
(***************************************************************************)
C6_WtptIsTruncatedD50 ==
    ProfileBuilt =>
        LET X == Uint32At(tables[2].data, 1)
            Y == Uint32At(tables[2].data, 5)
            Z == Uint32At(tables[2].data, 9)
        IN  /\ tables[2].tag = "wtpt"
            /\ Len(tables[2].data) = 12
            /\ X = 63189 /\ Y = 65536 /\ Z = 54060
            /\ 0 < 9642 * 65536 - 10000 * X /\ 9642 * 65536 - 10000 * X < 10000
            /\ 0 < 8249 * 65536 - 10000 * Z /\ 8249 * 65536 - 10000 * Z < 10000
            /\ header.illuminant = tables[2].data

\* A fast-path profile for a source white point near D65 was finished.
C6_Witness ==
    /\ ProfileBuilt /\ WhitePoint = <<61, 64, 70>> /\ Returned /\ code >= 0
    /\ tables[2].data = <<0, 0, 246, 213, 0, 1, 0, 0, 0, 0, 211, 44>>

(***************************************************************************)
(* C7.  As claimed: in pdf_iccbased_color_space with an allowed native     *)
(* space and floor >= 1.3, exactly one buffer is appended, once: the       *)
(* downgraded buffer when the profile version exceeds the ceiling of the   *)
(* floor (floor in [1.3, 1.5): major > 2; 1.5: major > 4 or minor > 0;     *)
(* 1.6: major > 4 or minor > 1; >= 1.7: major > 4 or minor > 2), the       *)
(* original buffer otherwise.                                              *)
(***************************************************************************)
C7_Listed == CompatibilityLevel < 150 \/ CompatibilityLevel \in {150, 160}
                \/ CompatibilityLevel >= 170
C7_Exceeds ==
    \/ CompatibilityLevel < 150 /\ major > 2
    \/ CompatibilityLevel = 150 /\ (major > 4 \/ minor > 0)
    \/ CompatibilityLevel = 160 /\ (major > 4 \/ minor > 1)
    \/ CompatibilityLevel >= 170 /\ (major > 4 \/ minor > 2)
\* The call is past the point where it streams the buffer.
C7_PastStreaming ==
    /\ InIcc /\ data_cs \in {"gsCIEXYZ", "gsCIELAB", "gsRGB", "gsGRAY", "gsCMYK"}
    /\ CompatibilityLevel >= 130 /\ C7_Listed
    /\ pc \in {"icc_resource", "icc_finish", "done"}

C7_VersionGate_Original ==
    C7_PastStreaming =>
        streamed = << (IF C7_Exceeds THEN "v2_buffer" ELSE "buffer") >>

(***************************************************************************)
(* C7, amended.  The same, provided a rendering context is supplied (pgs   *)
(* not NULL) whenever the version exceeds the ceiling; with a NULL pgs and *)
(* a version above the ceiling neither buffer is requested or appended and *)
(* the call returns the undefined error.                                   *)
(***************************************************************************)
C7_VersionGate ==
    C7_PastStreaming =>
        IF C7_Exceeds /\ pgs = "NULL"
        THEN streamed = << >> /\ Returned /\ code = gs_error_undefined
                /\ strm.length = 0
        ELSE streamed = << (IF C7_Exceeds THEN "v2_buffer" ELSE "buffer") >>
                /\ (err = 0 => strm.length = 1)

\* Version 4.2 at floor 1.5 with a pgs: the v2 buffer was streamed and the
\* stream finished.
C7_Witness ==
    /\ C7_PastStreaming /\ CompatibilityLevel = 150 /\ major = 4 /\ minor = 2
    /\ pgs = "gstate" /\ streamed = << "v2_buffer" >> /\ Returned /\ code >= 0

(***************************************************************************)
(* C8.  pdf_iccbased_color_space returns the range-check error for every   *)
(* profile whose native color space is not one of XYZ, Lab, RGB, Gray,     *)
(* CMYK, and on that rejection it has changed nothing: no element added to *)
(* the array, no stream allocated, no bytes streamed, nothing registered   *)
(* or finished.                                                            *)
(***************************************************************************)
C8_RejectsOtherSpaces ==
    InIcc /\ data_cs \notin {"gsCIEXYZ", "gsCIELAB", "gsRGB", "gsGRAY", "gsCMYK"} =>
        /\ Returned /\ code = gs_error_rangecheck
        /\ pca = << >> /\ strm = NoStream /\ pcstrm = "unset"
        /\ streamed = << >> /\ pres = "none"

\* A profile of a named color space was rejected.
C8_Witness ==
    InIcc /\ data_cs = "gsNAMED" /\ Returned /\ code = gs_error_rangecheck

(***************************************************************************)
(* C9.  When the compatibility floor is below 1.3,                         *)
(* pdf_iccbased_color_space rejects the profile with a range-check error   *)
(* and leaves the color space array as it was on entry, with no stream     *)
(* left allocated and nothing streamed, registered or finished.            *)
(***************************************************************************)
C9_RejectBelow13LeavesNothing ==
    InIcc /\ CompatibilityLevel # 0 /\ CompatibilityLevel < 130 /\ Returned =>
        /\ code = gs_error_rangecheck
        /\ pca = << >> /\ strm.state # "live"
        /\ streamed = << >> /\ pres = "none" /\ strm.id = 0 /\ ~strm.written

(***************************************************************************)
(* C10.  Once a stream append or a tag writer has returned an error, no    *)
(* further bytes are added to the profile stream, pdf_finish_iccbased is   *)
(* not called for it (no id, nothing written), and the call returns that   *)
(* error code unchanged.                                                   *)
(***************************************************************************)
C10_ErrorAbortsAndPropagates ==
    err # 0 =>
        /\ err < 0
        /\ strm.length = err_len
        /\ strm.id = 0 /\ ~strm.written
        /\ pc \in {"done", "write_a2b0_free", "icc_resource"}
        /\ (Returned => code = err)

\* The buffer append of pdf_iccbased_color_space failed; the stream was
\* still registered and the call returned the append's error.
C10_Witness ==
    /\ InIcc /\ err = gs_error_ioerror /\ Returned /\ code = gs_error_ioerror
    /\ pres = "registered" /\ strm.id = 0

(***************************************************************************)
(* C11.  When the version gate asks for a downgrade and pgs is NULL,       *)
(* pdf_iccbased_color_space returns the undefined error: no downgraded     *)
(* buffer is requested, no byte is appended, the stream is neither         *)
(* registered as a resource nor finished.  When no downgrade is asked for, *)
(* a NULL pgs never gives this error: the call goes on to stream the       *)
(* profile's own buffer.                                                   *)
(***************************************************************************)
C11_NullPgsOnDowngrade ==
    InIcc =>
        /\ (downgrade_icc /\ pgs = "NULL" /\ pc # "icc_stream" =>
                /\ Returned /\ code = gs_error_undefined
                /\ streamed = << >> /\ strm.length = 0
                /\ pres = "none" /\ strm.id = 0 /\ ~strm.written)
        /\ (Returned /\ code = gs_error_undefined =>
                downgrade_icc /\ pgs = "NULL")
        /\ (~downgrade_icc /\ pgs = "NULL"
                /\ pc \in {"icc_resource", "icc_finish"} =>
                    streamed = << "buffer" >>)

\* A version 4 profile at floor 1.3 without a pgs: undefined was returned.
C11_Witness ==
    /\ InIcc /\ CompatibilityLevel = 130 /\ major = 4 /\ pgs = "NULL"
    /\ downgrade_icc /\ Returned /\ code = gs_error_undefined
    /\ streamed = << >> /\ pres = "none"

(***************************************************************************)
(* C12.  pdf_make_iccbased returns the range-check error exactly when no   *)
(* alternate space is given and the component count is not 1, 3 or 4       *)
(* (no other call of it having failed before).  On every failure the       *)
(* stream it allocated is freed and *ppcstrm is not assigned.  On success  *)
(* exactly the two elements /ICCBased and the stream object have been      *)
(* added to the array, and the stream dictionary holds /N equal to the     *)
(* component count.                                                        *)
(***************************************************************************)
\* pdf_make_iccbased has returned: to pdf_iccbased_color_space (which reads
\* num_comps for the call) or to pdf_convert_cie_to_iccbased (ncomps).
C12_MakeReturnedIcc == InIcc /\ num_comps # 0
C12_MakeReturnedCie == InCie /\ ncomps # 0
\* It failed: the caller returned at once, before reading anything more.
C12_MakeFailed ==
    \/ C12_MakeReturnedIcc /\ Returned /\ major = -1
    \/ C12_MakeReturnedCie /\ Returned /\ one_step = "unread"
C12_N == IF InIcc THEN num_comps ELSE ncomps
C12_NoAlternate == InIcc /\ base_space = "NULL"

C12_MakeIccbasedContract ==
    C12_MakeReturnedIcc \/ C12_MakeReturnedCie =>
        /\ (C12_MakeFailed =>
                /\ code < 0
                /\ strm.state \in {"none", "freed"}
                /\ pcstrm = "unset"
                /\ strm.id = 0 /\ ~strm.written)
        /\ (C12_MakeFailed /\ code = gs_error_rangecheck =>
                C12_NoAlternate /\ C12_N \notin {1, 3, 4})
        \* /N was put, so nothing failed before the test of the count
        /\ (C12_NoAlternate /\ C12_N \notin {1, 3, 4} /\ strm.N = C12_N =>
                C12_MakeFailed /\ code = gs_error_rangecheck
                    /\ strm.state = "freed")
        /\ (~C12_MakeFailed =>
                /\ pca = << "/ICCBased", "stream" >>
                /\ strm.N = C12_N
                /\ strm.state = "live"
                /\ pcstrm = "set")

\* A 2-component profile without an alternate space was refused.
C12_Witness ==
    /\ InIcc /\ num_comps = 2 /\ base_space = "NULL" /\ Returned
    /\ code = gs_error_rangecheck /\ strm.state = "freed" /\ strm.N = 2
    /\ pcstrm = "unset" /\ pca = << "/ICCBased" >>

(***************************************************************************)
(* C18.  For k in {1, 3, 4} channels add_a2b0 takes s = min(255, the       *)
(* largest integer with s^k <= 2500) points on each axis: s^k <= 2500,     *)
(* s <= 255 (it fits the one-byte CLUT-points field), the entry count is   *)
(* exactly s^k, and s is maximal: s = 255 or (s + 1)^k > 2500.  That is    *)
(* s = 255, 13, 7 and 255, 2197, 2401 entries for k = 1, 3, 4.             *)
(***************************************************************************)
\* x^k for k = 1, 3, 4.
C18_Power(x, k) == IF k = 1 THEN x ELSE IF k = 3 THEN x * x * x ELSE x * x * x * x

C18_SampleCount ==
    a2b0 # NoA2b0 =>
        LET k == a2b0.ncomps
            s == a2b0.num_points
        IN  /\ k = ncomps /\ k \in {1, 3, 4}
            /\ 1 <= s /\ s <= 255
            /\ C18_Power(s, k) <= 2500
            /\ a2b0.count = C18_Power(s, k)
            /\ (s = 255 \/ C18_Power(s + 1, k) > 2500)
            /\ s = (IF k = 1 THEN 255 ELSE IF k = 3 THEN 13 ELSE 7)
            /\ tables[4].tag = "A2B0"
            /\ tables[4].length = 52 + 4 * k + 6 * C18_Power(s, k) + 12

\* The table of a 1-channel space, where the cap of 255 decides, was written.
C18_Witness ==
    /\ a2b0 # NoA2b0 /\ a2b0.ncomps = 1 /\ a2b0.num_points = 255
    /\ a2b0.count = 255 /\ ci = 255 /\ Returned /\ code >= 0

(***************************************************************************)
(* C19.  write_a2b0 emits exactly s^k CLUT entries.  Entry e (from 0) is   *)
(* sampled at the grid point whose index in channel j is                   *)
(* floor(e / s^(k-1-j)) mod s: the last channel varies fastest.  The       *)
(* indices are in 0 .. s-1 and give e back as sum of index_j * s^(k-1-j),  *)
(* so the s^k entries meet each grid point once.  Index 0 is sampled at    *)
(* the minimum and index s-1 at the maximum of the channel's range (0 and  *)
(* 1 without ranges), the others in proportion between them.               *)
(***************************************************************************)
\* x^e, e >= 0.
RECURSIVE C19_Power(_, _)
C19_Power(x, e) == IF e = 0 THEN 1 ELSE x * C19_Power(x, e - 1)
\* The entry the values of in were computed for: a failed append leaves ci.
C19_Entry == IF loc < 0 THEN ci ELSE ci - 1
C19_Index(j) ==
    (C19_Entry \div C19_Power(a2b0.num_points, a2b0.ncomps - 1 - j))
        % a2b0.num_points
C19_Lo(j) == IF ranges = "NULL" THEN F(0) ELSE GivenRanges[j].rmin
C19_Hi(j) == IF ranges = "NULL" THEN F(1) ELSE GivenRanges[j].rmax
\* Sum of index_j * s^(k-1-j) over the channels j .. k-1.
RECURSIVE C19_Recombined(_)
C19_Recombined(j) ==
    IF j = a2b0.ncomps THEN 0
    ELSE C19_Index(j) * C19_Power(a2b0.num_points, a2b0.ncomps - 1 - j)
            + C19_Recombined(j + 1)

C19_ClutGridOrder ==
    /\ (InCie /\ in # << >> =>
            LET s == a2b0.num_points
                k == a2b0.ncomps
            IN  /\ DOMAIN in = 0..(k - 1)
                /\ 0 <= C19_Entry /\ C19_Entry < C19_Power(s, k)
                /\ C19_Recombined(0) = C19_Entry
                /\ \A j \in 0..(k - 1) :
                    /\ C19_Index(j) \in 0..(s - 1)
                    /\ (C19_Index(j) = 0 => in[j] = C19_Lo(j))
                    /\ (C19_Index(j) = s - 1 => in[j] = C19_Hi(j))
                    /\ FMul(in[j], F(s - 1)) =
                          FAdd(FMul(C19_Lo(j), F(s - 1 - C19_Index(j))),
                               FMul(C19_Hi(j), F(C19_Index(j)))))
    /\ (InCie /\ pc = "write_a2b0_clut" =>
            strm.length = bytes[ti].offset + 52 + 4 * a2b0.ncomps + 6 * ci)
    /\ (InCie /\ a2b0 # NoA2b0 /\ (pc = "write_a2b0_out" \/ (Returned /\ code >= 0)) =>
            ci = C19_Power(a2b0.num_points, a2b0.ncomps))

\* The last entry of a 3-channel table with ranges, grid point (12, 12, 12),
\* was sampled at the maxima of the three ranges and the profile finished.
C19_Witness ==
    /\ InCie /\ a2b0.ncomps = 3 /\ ranges = "given" /\ Returned /\ code >= 0
    /\ ci = 2197 /\ in = [j \in 0..2 |-> GivenRanges[j].rmax]

(***************************************************************************)
(* Vocabulary of the properties of cie_to_xyz, xyz_to_lab and lab_range.   *)
(***************************************************************************)
\* cie_to_xyz was called on its own and has returned code.
CieToXyzReturned ==
    pc = "done" /\ cs_index # "unread" /\ pWhitePoint # NoXYZ /\ gs_allocs = 0
\* cie_to_xyz has been applied, on its own or in lab_range.
CieToXyzApplied == cs_index # "unread" /\ pWhitePoint # NoXYZ
\* xyz_to_lab has been applied to xyz, on its own or in lab_range.
XyzToLabApplied ==
    pWhitePoint # NoXYZ /\ (cs_index = "unread" \/ corner > 0)
\* The ratios X/Xn, Y/Yn, Z/Zn of that call.
RatioX == FDiv(xyz[1], pWhitePoint[1])
RatioY == FDiv(xyz[2], pWhitePoint[2])
RatioZ == FDiv(xyz[3], pWhitePoint[3])
\* f is the piecewise cube-root value of the ratio r: its cube is r from the
\* breakpoint (6/29)^3 on, and it is (841/108) * r + 4/29 below.
IsF(f, r) ==
    IF FLess(r, Frac(216, 24389))
    THEN f = FAdd(FMul(Frac(841, 108), r), Frac(4, 29))
    ELSE f[1] > 0 /\ FMul(f, FMul(f, f)) = r
\* 116 * f(Y/Yn) - 16, before any clamp.
UnclampedL == FSub(FMul(F(116), lab_g_inverse(RatioY)), F(16))
LNotClamped == ~FLess(UnclampedL, F(0)) /\ ~FLess(F(100), UnclampedL)
FLeq(a, b) == ~FLess(b, a)
Within(v, r) == FLeq(r.rmin, v) /\ FLeq(v, r.rmax)

(***************************************************************************)
(* C13.  cie_to_xyz returns an error if and only if the variant of the     *)
(* color space is not one of CIEA, CIEABC, CIEDEF, CIEDEFG; for each of    *)
(* these it returns success.                                               *)
(***************************************************************************)
C13_ErrorIffUnrecognized ==
    CieToXyzReturned => (code < 0 <=> cs_index \notin CieIndexes)

(***************************************************************************)
(* C14.  The ranges range_out[1] and range_out[2] of lab_range, written as *)
(* the /Range of a* and b*, contain the a* (lab[0]) and the b* (lab[2])    *)
(* that xyz_to_lab computes for each of the 2^k corners of the domain, and *)
(* all 2^k corners are evaluated before lab_range returns 0.               *)
(***************************************************************************)
C14_RangesContainCorners ==
    /\ (corner > 0 =>
            Within(lab[0], range_out[1]) /\ Within(lab[2], range_out[2]))
    /\ (pc = "done" /\ gs_frees = 1 /\ cs_index # "unread" =>
            code = 0 /\ corner = 2 ^ ncomps)

(***************************************************************************)
(* C15.  For every ratio Y/Yn >= 0, above 1 and below the breakpoint       *)
(* (6/29)^3 included, the L* of xyz_to_lab (lab[1]) is in [0, 100]: it is  *)
(* 116 * f(Y/Yn) - 16 when that is in [0, 100], 0 when it is below and 100 *)
(* when it is above.                                                       *)
(***************************************************************************)
C15_LClamped ==
    XyzToLabApplied /\ FLeq(F(0), RatioY) =>
        LET f == lab_g_inverse(RatioY)
            u == FSub(FMul(F(116), f), F(16))
        IN  /\ IsF(f, RatioY)
            /\ FLeq(F(0), lab[1]) /\ FLeq(lab[1], F(100))
            /\ lab[1] = (IF FLess(u, F(0)) THEN F(0)
                         ELSE IF FLess(F(100), u) THEN F(100)
                         ELSE u)

\* Y eight times the white's: f is 2 and L* was brought from 216 to 100.
C15_Witness ==
    /\ XyzToLabApplied /\ pc = "done" /\ cs_index = "unread"
    /\ RatioY = F(8) /\ lab[1] = F(100)

(***************************************************************************)
(* C16.  For every XYZ input and white point the a* of xyz_to_lab (lab[0]) *)
(* is 500 * (f(X/Xn) - f(Y/Yn)) with the unclamped f(Y/Yn), also when L*   *)
(* was clamped to 0 or to 100.                                             *)
(***************************************************************************)
C16_AStarUnclamped ==
    XyzToLabApplied =>
        lab[0] = FMul(F(500), FSub(lab_g_inverse(RatioX), lab_g_inverse(RatioY)))

(***************************************************************************)
(* C17.  As claimed: for every XYZ input whose L* is not clamped the b* of *)
(* xyz_to_lab (lab[2]) is -200 * (f(Y/Yn) - f(Z/Zn)), positive exactly     *)
(* when f(Z/Zn) > f(Y/Yn).                                                 *)
(***************************************************************************)
C17_BStar_Original ==
    XyzToLabApplied /\ LNotClamped =>
        /\ lab[2] = FMul(F(-200), FSub(lab_g_inverse(RatioY), lab_g_inverse(RatioZ)))
        /\ (lab[2][1] > 0 <=> FLess(lab_g_inverse(RatioY), lab_g_inverse(RatioZ)))

(***************************************************************************)
(* C17, amended.  For every XYZ input whose L* is not clamped the b* of    *)
(* xyz_to_lab is -200 * (f(Z/Zn) - f(Y/Yn)), that is 200 * (f(Y/Yn) -      *)
(* f(Z/Zn)): positive exactly when f(Y/Yn) > f(Z/Zn).                      *)
(***************************************************************************)
C17_BStar ==
    XyzToLabApplied /\ LNotClamped =>
        LET fy == lab_g_inverse(RatioY)
            fz == lab_g_inverse(RatioZ)
        IN  /\ IsF(fy, RatioY) /\ IsF(fz, RatioZ)
            /\ lab[2] = FMul(F(200), FSub(fy, fz))
            /\ (lab[2][1] > 0 <=> FLess(fz, fy))

\* X and Y at the white's, Z at an eighth of it: f(Z/Zn) = 1/2 and b* = 100.
C17_Witness ==
    /\ XyzToLabApplied /\ pc = "done" /\ cs_index = "unread"
    /\ RatioY = F(1) /\ RatioZ = Frac(1, 8) /\ lab[1] = F(100)
    /\ lab[2] = F(100)

(***************************************************************************)
(* C20.  For a CIEBasedA space cie_to_xyz replaces X and Z by the source   *)
(* white point's X and Z times the concretized Y, so that it returns       *)
(* (0.9642 * Y, Y, 0.8249 * Y) whatever the source white point; for the    *)
(* variants with 3 and 4 channels X and Z stay as concretized and are only *)
(* mapped to D50.                                                          *)
(***************************************************************************)
C20_AchromaticCIEA ==
    CieToXyzApplied =>
        LET Y == xyz_float[2]
        IN  IF cs_index = "gs_color_space_index_CIEA"
            THEN /\ xyz_float[1] = FMul(pWhitePoint[1], Y)
                 /\ xyz_float[3] = FMul(pWhitePoint[3], Y)
                 /\ xyz = << FMul(Frac(9642, 10000), Y), Y,
                             FMul(Frac(8249, 10000), Y) >>
            ELSE cs_index \in CieIndexes =>
                 /\ xyz_float \in Concretized
                 /\ FDiv(xyz[1], Frac(9642, 10000))
                        = FDiv(xyz_float[1], pWhitePoint[1])
                 /\ xyz[2] = Y
                 /\ FDiv(xyz[3], Frac(8249, 10000))
                        = FDiv(xyz_float[3], pWhitePoint[3])

\* A CIEBasedA color with Y = 1/8 under a white point that is not D50.
C20_Witness ==
    /\ CieToXyzReturned /\ cs_index = "gs_color_space_index_CIEA"
    /\ pWhitePoint = OfD50(F(8), Frac(1, 8), Frac(1, 8))
    /\ xyz = << Frac(9642, 80000), Frac(1, 8), Frac(8249, 80000) >>

(***************************************************************************)
(* C21.  The white-point mapping of cie_to_xyz scales each of the three    *)
(* components by (D50 component / source white point component): X by      *)
(* 0.9642 / Xw, Y by 1 / Yw and Z by 0.8249 / Zw, also for source white    *)
(* points with Yw different from 1, as adjust_wp does for a matrix column. *)
(***************************************************************************)
C21_PerComponentAdaptation ==
    CieToXyzApplied /\ cs_index \in CieIndexes =>
        /\ xyz[1] = FMul(xyz_float[1], FDiv(Frac(9642, 10000), pWhitePoint[1]))
        /\ xyz[2] = FMul(xyz_float[2], FDiv(F(1), pWhitePoint[2]))
        /\ xyz[3] = FMul(xyz_float[3], FDiv(Frac(8249, 10000), pWhitePoint[3]))

(***************************************************************************)
(* C22.  For every lookup table of 3 or 4 dimensions and every query whose *)
(* fractional offsets are all zero, gx_color_interpolate_linear returns    *)
(* the same m components as gx_color_interpolate_nearest, which are the    *)
(* bytes of the table row at the integer indices, unchanged.               *)
(***************************************************************************)
C22_OnGrid == \A j \in DOMAIN pi : pi[j] % 256 = 0
C22_Ix(j) == pi[j] \div 256
C22_RowByte(k) ==
    IF pclt.n = 3
    THEN pclt.table[C22_Ix(0) + 1]
            [(C22_Ix(1) * pclt.dims[2] + C22_Ix(2)) * pclt.m + k + 1]
    ELSE pclt.table[C22_Ix(0) * pclt.dims[1] + C22_Ix(1) + 1]
            [(C22_Ix(2) * pclt.dims[3] + C22_Ix(3)) * pclt.m + k + 1]
C22_LinearIsNearestOnGrid ==
    pc = "done" /\ pclt # NoTable /\ C22_OnGrid =>
        /\ DOMAIN pv_linear = 0..(pclt.m - 1)
        /\ pv_linear = pv_nearest
        /\ \A k \in 0..(pclt.m - 1) : pv_nearest[k] = <<C22_RowByte(k), 1>>

\* A 4-dimensional table with 3 outputs queried on an inner grid point whose
\* neighbours hold other bytes.
C22_Witness ==
    /\ pc = "done" /\ pclt # NoTable /\ C22_OnGrid
    /\ pclt.n = 4 /\ pclt.m = 3
    /\ C22_Ix(0) = 0 /\ C22_Ix(1) = 1 /\ C22_Ix(2) = 1 /\ C22_Ix(3) = 0
    /\ pv_linear = pv_nearest
    /\ pv_linear[0] # <<0, 1>>

(***************************************************************************)
(* C23.  Every stream that pdf_iccbased_color_space finishes (assigns an   *)
(* id and writes) has been registered as a resourceOther resource before:  *)
(* no successful return leaves the finished stream unregistered, also when *)
(* pdf_alloc_resource itself fails.                                        *)
(***************************************************************************)
C23_FinishedIsRegistered ==
    /\ (data_cs # "unread" /\ strm.id # 0 => pres = "registered")
    /\ (data_cs # "unread" /\ Returned /\ code >= 0 /\ strm.written =>
            pres = "registered")

(***************************************************************************)
(* C24.  The version gate is monotone in the compatibility level: for      *)
(* every profile version (major, minor) and levels 1.3 <= c <= c', a       *)
(* profile streamed unmodified (no downgrade) at level c is streamed       *)
(* unmodified at level c' too, levels strictly between 1.5 and 1.6 and     *)
(* between 1.6 and 1.7 included.                                           *)
(***************************************************************************)
C24_Levels == 130..200
C24_GateMonotone ==
    pc = "icc_stream" /\ ~downgrade_icc =>
        \A c2 \in C24_Levels :
            c2 >= CompatibilityLevel => ~DowngradeNeeded(c2, major, minor)

(***************************************************************************)
(* C25.  The graphics state obtained with gx_cie_to_xyz_alloc is released  *)
(* exactly once on every path through write_a2b0 and lab_range that        *)
(* allocated it, also when the append of a CLUT entry fails in the middle  *)
(* of the loop; it is never released or used when the allocation failed or *)
(* was not reached.                                                        *)
(***************************************************************************)
\* Between a successful allocation and the release.
C25_Holding ==
    pc \in {"write_a2b0_clut", "write_a2b0_free", "lab_range_corner",
            "lab_range_free"}
C25_ReleasedExactlyOnce ==
    /\ gs_allocs \in {0, 1}
    /\ IF C25_Holding THEN gs_allocs = 1 /\ gs_frees = 0
       ELSE gs_frees = gs_allocs
    /\ (in # << >> \/ corner > 0 => gs_allocs = 1)
    /\ (Returned /\ gs_allocs = 0 => in = << >> /\ corner = 0 /\ gs_frees = 0)

\* The append of a CLUT entry failed after some entries were written, in
\* the 2197-entry table of a 3-channel space, and the state was released.
C25_Witness ==
    /\ Returned /\ code < 0 /\ code = loc
    /\ a2b0.count = 2197 /\ ci > 0 /\ ci < a2b0.count
    /\ gs_allocs = 1 /\ gs_frees = 1
====
